---- MODULE Spec2Model ----
(***************************************************************************)
(* Model of ferrux_projection_matrix (src/src/lib.rs): the builder         *)
(* ProjectionMatrixBuilder, its five setters and build().                  *)
(*                                                                         *)
(* f32 values are modelled as extended rationals <<n, d>>:                 *)
(*   d > 0, gcd(n, d) = 1   the finite value n/d                           *)
(*   <<1, 0>>, <<-1, 0>>    +infinity, -infinity                           *)
(*   <<0, 0>>               NaN                                            *)
(* Rounding to 24 bits of mantissa is not modelled, and +0.0 and -0.0 are  *)
(* one value (they compare equal in IEEE 754).  Every argument passed to   *)
(* a setter is an integer, so every zero divisor that build() meets        *)
(* (height as f32, tan(0), far - near with far = near) is +0.0: x / 0      *)
(* takes the sign of x, and 0 / 0 is NaN.                                  *)
(***************************************************************************)
EXTENDS Integers, Sequences, FiniteSets, TLC

(* ---------------- bounds of the model ---------------- *)
MaxClip == 1
MaxDim == 2
MaxCalls == 3

(* ---------------- program constants ---------------- *)
DEFAULT_NEAR == 0
DEFAULT_FAR == 1000
DEFAULT_FIELD_OF_VIEW == 90
DEFAULT_WIDTH == 1280
DEFAULT_HEIGHT == 720

(* arguments the callers pass *)
ClipValues == (0 - MaxClip)..MaxClip
DimValues == 0..MaxDim
FovValues == {-1, 0, 90, 100, 270, 360, 361}

(* ---------------- f32 arithmetic ---------------- *)
Abs(n) == IF n < 0 THEN 0 - n ELSE n

Sign(n) == IF n < 0 THEN -1 ELSE IF n > 0 THEN 1 ELSE 0

RECURSIVE Gcd(_, _)
Gcd(a, b) == IF b = 0 THEN a ELSE Gcd(b, a % b)

\* n/d, d >= 0, in lowest terms; d = 0 gives an infinity or NaN
Norm(n, d) ==
    IF d = 0 THEN <<Sign(n), 0>>
    ELSE LET g == Gcd(Abs(n), d) IN <<n \div g, d \div g>>

\* an integer as f32 (the literals, and `usize as f32`)
F(n) == <<n, 1>>

IsNaN(x) == x = <<0, 0>>

IsFinite(x) == x[2] # 0

FNeg(x) == <<0 - x[1], x[2]>>

\* a - b
FSub(a, b) ==
    IF IsNaN(a) \/ IsNaN(b) THEN <<0, 0>>
    ELSE IF IsFinite(a) /\ IsFinite(b)
         THEN Norm(a[1] * b[2] - b[1] * a[2], a[2] * b[2])
    ELSE IF IsFinite(b) THEN a
    ELSE IF IsFinite(a) THEN FNeg(b)
    ELSE IF a = b THEN <<0, 0>> ELSE a

\* a * b : inf * 0 = NaN, otherwise the signs multiply
FMul(a, b) ==
    IF IsFinite(a) /\ IsFinite(b) THEN Norm(a[1] * b[1], a[2] * b[2])
    ELSE <<Sign(a[1]) * Sign(b[1]), 0>>

\* a / b : x / 0 = +-inf, 0 / 0 = NaN, x / inf = 0, inf / inf = NaN
FDiv(a, b) ==
    IF IsNaN(a) \/ IsNaN(b) THEN <<0, 0>>
    ELSE IF IsFinite(a) /\ IsFinite(b)
         THEN IF b[1] = 0 THEN <<Sign(a[1]), 0>>
              ELSE Norm(Sign(b[1]) * a[1] * b[2], Abs(b[1]) * a[2])
    ELSE IF IsFinite(a) THEN <<0, 1>>
    ELSE IF IsFinite(b) THEN <<a[1] * (IF b[1] < 0 THEN -1 ELSE 1), 0>>
    ELSE <<0, 0>>

\* a < b ; false when either is NaN
FLess(a, b) ==
    /\ ~IsNaN(a)
    /\ ~IsNaN(b)
    /\ a # b
    /\ IF IsFinite(a) /\ IsFinite(b) THEN a[1] * b[2] < b[1] * a[2]
       ELSE IF IsFinite(a) THEN b[1] > 0
       ELSE a[1] < 0

\* (fov * 0.5 / 180.0 * PI).tan() at the fov values of the model:
\* tan(0) = 0, tan(45 deg) = 1, tan(50 deg) = 1.192, tan(135 deg) = -1.
TanHalfFov(fov) ==
    CASE fov = F(0) -> F(0)
      [] fov = F(90) -> F(1)
      [] fov = F(100) -> Norm(1192, 1000)
      [] fov = F(270) -> F(-1)

(* ---------------- the builder ---------------- *)
VARIABLES near, far, fov, width, height, matrix, log

vars == <<near, far, fov, width, height, matrix, log>>

\* value of `matrix` before any build() has returned
NoMatrix == <<>>

\* matrix[i][j] with the source's indices, from 0
At(m, i, j) == m[i + 1][j + 1]

self == [near |-> near, far |-> far, fov |-> fov, width |-> width, height |-> height]

\* the last call made on the builder
op == log[Len(log)]

\* a panic ends the run: no call follows it
Running == ~op.aborted /\ Len(log) <= MaxCalls

Call(name, arg, aborted) == [name |-> name, arg |-> arg, aborted |-> aborted]

\* new() with the width and height defaults exchanged
new_swapped ==
    [near |-> F(DEFAULT_NEAR), far |-> F(DEFAULT_FAR), fov |-> F(DEFAULT_FIELD_OF_VIEW),
     width |-> DEFAULT_HEIGHT, height |-> DEFAULT_WIDTH]

\* ProjectionMatrixBuilder::new
new ==
    [near |-> F(DEFAULT_NEAR), far |-> F(DEFAULT_FAR), fov |-> F(DEFAULT_FIELD_OF_VIEW),
     width |-> DEFAULT_WIDTH, height |-> DEFAULT_HEIGHT]

Init ==
    /\ near = new.near
    /\ far = new.far
    /\ fov = new.fov
    /\ width = new.width
    /\ height = new.height
    /\ matrix = NoMatrix
    /\ log = <<Call("new", 0, FALSE)>>

\* a fresh builder, in a fresh run
New ==
    /\ Len(log) > 1
    /\ near' = new.near
    /\ far' = new.far
    /\ fov' = new.fov
    /\ width' = new.width
    /\ height' = new.height
    /\ matrix' = NoMatrix
    /\ log' = <<Call("new", 0, FALSE)>>

\* set_near that also overwrites far
set_near_clobber ==
    /\ Running
    /\ \E v \in ClipValues :
        /\ near' = F(v)
        /\ far' = F(v)
        /\ log' = Append(log, Call("set_near", v, FALSE))
    /\ UNCHANGED <<fov, width, height, matrix>>

set_near ==
    /\ Running
    /\ \E v \in ClipValues :
        /\ near' = F(v)
        /\ log' = Append(log, Call("set_near", v, FALSE))
    /\ UNCHANGED <<far, fov, width, height, matrix>>

set_far ==
    /\ Running
    /\ \E v \in ClipValues :
        /\ far' = F(v)
        /\ log' = Append(log, Call("set_far", v, FALSE))
    /\ UNCHANGED <<near, fov, width, height, matrix>>

\* (0.0..360.0).contains(&fov)
FovInRange(v) == ~FLess(v, F(0)) /\ ~IsNaN(v) /\ FLess(v, F(360))

set_fov ==
    /\ Running
    /\ \E v \in FovValues :
        IF ~FovInRange(F(v))
        THEN /\ log' = Append(log, Call("set_fov", v, TRUE))
             /\ UNCHANGED fov
        ELSE /\ fov' = F(v)
             /\ log' = Append(log, Call("set_fov", v, FALSE))
    /\ UNCHANGED <<near, far, width, height, matrix>>

set_width ==
    /\ Running
    /\ \E v \in DimValues :
        /\ width' = v
        /\ log' = Append(log, Call("set_width", v, FALSE))
    /\ UNCHANGED <<near, far, fov, height, matrix>>

set_height ==
    /\ Running
    /\ \E v \in DimValues :
        /\ height' = v
        /\ log' = Append(log, Call("set_height", v, FALSE))
    /\ UNCHANGED <<near, far, fov, width, matrix>>

\* the comparison of build() the wrong way round
BuildPanics_reversed(s) == FLess(s.near, s.far)

\* build() that also rejects a zero height
BuildPanics_zero_height(s) == FLess(s.far, s.near) \/ s.height = 0

\* if self.far < self.near { panic!(..) }
BuildPanics(s) == FLess(s.far, s.near)

\* build() with the textbook entry far / distance at [2][2]
BuildMatrix_textbook(s) ==
    LET aspect_ratio == FDiv(F(s.width), F(s.height))
        fov_rad == FDiv(F(1), TanHalfFov(s.fov))
        distance == FSub(s.far, s.near)
        z == F(0)
    IN  << <<FMul(aspect_ratio, fov_rad), z, z, z>>,
           <<z, fov_rad, z, z>>,
           <<z, z, FDiv(s.far, distance), F(1)>>,
           <<z, z, FDiv(FMul(FNeg(s.far), s.near), distance), z>> >>

\* build() with the aspect ratio applied to [1][1] instead of [0][0]
BuildMatrix_aspect_on_y(s) ==
    LET aspect_ratio == FDiv(F(s.width), F(s.height))
        fov_rad == FDiv(F(1), TanHalfFov(s.fov))
        distance == FSub(s.far, s.near)
        z == F(0)
    IN  << <<fov_rad, z, z, z>>,
           <<z, FMul(aspect_ratio, fov_rad), z, z>>,
           <<z, z, FMul(s.far, distance), F(1)>>,
           <<z, z, FDiv(FMul(FNeg(s.far), s.near), distance), z>> >>

\* the matrix build() assembles
BuildMatrix(s) ==
    LET aspect_ratio == FDiv(F(s.width), F(s.height))
        fov_rad == FDiv(F(1), TanHalfFov(s.fov))
        distance == FSub(s.far, s.near)
        z == F(0)
    IN  << <<FMul(aspect_ratio, fov_rad), z, z, z>>,
           <<z, fov_rad, z, z>>,
           <<z, z, FMul(s.far, distance), F(1)>>,
           <<z, z, FDiv(FMul(FNeg(s.far), s.near), distance), z>> >>

\* build() that stores the distance back into far
build_storing_distance ==
    /\ Running
    /\ IF BuildPanics(self)
       THEN /\ log' = Append(log, Call("build", 0, TRUE))
            /\ UNCHANGED <<matrix, far>>
       ELSE /\ matrix' = BuildMatrix(self)
            /\ far' = FSub(far, near)
            /\ log' = Append(log, Call("build", 0, FALSE))
    /\ UNCHANGED <<near, fov, width, height>>

build ==
    /\ Running
    /\ IF BuildPanics(self)
       THEN /\ log' = Append(log, Call("build", 0, TRUE))
            /\ UNCHANGED matrix
       ELSE /\ matrix' = BuildMatrix(self)
            /\ log' = Append(log, Call("build", 0, FALSE))
    /\ UNCHANGED <<near, far, fov, width, height>>

Next ==
    \/ New
    \/ set_near
    \/ set_far
    \/ set_fov
    \/ set_width
    \/ set_height
    \/ build

Spec == Init /\ [][Next]_vars

(* ======================= the claims ======================= *)

\* the step is a call of `name` on the builder
Step(name) == Len(log') = Len(log) + 1 /\ op'.name = name

Setters == {"set_near", "set_far", "set_fov", "set_width", "set_height"}

\* C1: set_fov(fov) aborts for every fov <= 0 and every fov >= 360
\* (as the claim states it, the value 0 included).
C1_SetFovAbortsOutsideOpenInterval ==
    (op.name = "set_fov" /\ (op.arg <= 0 \/ op.arg >= 360)) => op.aborted

C3_BuildAbortsUnlessDepthPositive ==
    (op.name = "build" /\ ~FLess(F(0), FSub(far, near))) => op.aborted

\* C4: the matrix a successful build() returns is the reference one: the five
\* assigned entries have the stated values and the other 11 are 0.
C4_MatrixIsReference ==
    (op.name = "build" /\ ~op.aborted) =>
        /\ Len(matrix) = 4
        /\ \A i \in 0..3 : Len(matrix[i + 1]) = 4
        /\ At(matrix, 2, 2) = FMul(far, FSub(far, near))
        /\ At(matrix, 3, 2) = FDiv(FMul(FNeg(far), near), FSub(far, near))
        /\ At(matrix, 2, 3) = F(1)
        /\ At(matrix, 1, 1) = FDiv(F(1), TanHalfFov(fov))
        /\ At(matrix, 0, 0) = FMul(FDiv(F(width), F(height)), FDiv(F(1), TanHalfFov(fov)))
        /\ \A i, j \in 0..3 :
             <<i, j>> \notin {<<0, 0>>, <<1, 1>>, <<2, 2>>, <<3, 2>>, <<2, 3>>}
                 => At(matrix, i, j) = F(0)

\* build() returned the matrix of near = -1, far = 1
C4_Witness ==
    /\ op = Call("build", 0, FALSE)
    /\ near = F(-1)
    /\ far = F(1)
    /\ At(matrix, 2, 2) = F(2)
    /\ At(matrix, 3, 2) = <<1, 2>>

\* C5: new() does not fail and gives near = 0, far = 1000, fov = 90,
\* width = 1280, height = 720; build() on it succeeds with m[2][2] = 1000000,
\* m[3][2] = 0, m[2][3] = 1 and m[0][0] = (1280 / 720) * m[1][1].
C5_DefaultsAndDefaultBuild ==
    /\ Len(log) = 1 =>
         /\ op = Call("new", 0, FALSE)
         /\ near = F(0) /\ far = F(1000) /\ fov = F(90)
         /\ width = 1280 /\ height = 720
    /\ (Len(log) = 2 /\ op.name = "build") =>
         /\ ~op.aborted
         /\ At(matrix, 2, 2) = F(1000000)
         /\ At(matrix, 3, 2) = F(0)
         /\ At(matrix, 2, 3) = F(1)
         /\ At(matrix, 0, 0) = FMul(Norm(1280, 720), At(matrix, 1, 1))

\* build() was the first call on a new builder
C5_Witness ==
    /\ log = <<Call("new", 0, FALSE), Call("build", 0, FALSE)>>
    /\ At(matrix, 2, 2) = F(1000000)
    /\ At(matrix, 0, 0) = <<16, 9>>

DependsOn(setter) ==
    CASE setter \in {"set_width", "set_height"} -> {<<0, 0>>}
      [] setter = "set_fov" -> {<<0, 0>>, <<1, 1>>}
      [] setter \in {"set_near", "set_far"} -> {<<2, 2>>, <<3, 2>>}

C9_SetterWritesOneField ==
    [][ /\ (Step("set_near") /\ ~op'.aborted) =>
              (near' = F(op'.arg) /\ UNCHANGED <<far, fov, width, height>>)
        /\ (Step("set_far") /\ ~op'.aborted) =>
              (far' = F(op'.arg) /\ UNCHANGED <<near, fov, width, height>>)
        /\ (Step("set_fov") /\ ~op'.aborted) =>
              (fov' = F(op'.arg) /\ UNCHANGED <<near, far, width, height>>)
        /\ (Step("set_width") /\ ~op'.aborted) =>
              (width' = op'.arg /\ UNCHANGED <<near, far, fov, height>>)
        /\ (Step("set_height") /\ ~op'.aborted) =>
              (height' = op'.arg /\ UNCHANGED <<near, far, fov, width>>) ]_vars

\* set_fov(100) returned on a builder whose near and width had been set
C9_Witness ==
    /\ log = <<Call("new", 0, FALSE), Call("set_near", 1, FALSE),
               Call("set_width", 2, FALSE), Call("set_fov", 100, FALSE)>>
    /\ near = F(1) /\ far = F(1000) /\ fov = F(100) /\ width = 2 /\ height = 720

\* C10: in every reachable state of the builder the stored fov is strictly
\* between 0 and 360.
C10_StoredFovInOpenInterval ==
    FLess(F(0), fov) /\ FLess(fov, F(360))

====
